---- MODULE Spec2Model ----
(***************************************************************************)
(* process_downloads.py: classification of completed download folders,    *)
(* transfer of their media into the library, retirement of the source     *)
(* folder to the recycle area.                                             *)
(*                                                                         *)
(* The filesystem is a set of directory paths and a function from file    *)
(* paths to file contents; a path is a sequence of name components.       *)
(* Every filesystem call of the script is one step of the model, so that  *)
(* the states between two steps are the points where the process can be   *)
(* interrupted.                                                            *)
(***************************************************************************)
EXTENDS Integers, Sequences, FiniteSets, TLC

\* ------------------------------------------------------------------ bounds
\* files in one source folder (single-folder initial states)
MaxFiles == 2
\* download folders present at once (several-folder initial states)
MaxItems == 2
\* successive invocations of the script
MaxRuns == 2
\* tokens of a show title (parse_tv alone)
MaxShowTokens == 2
\* tokens after the season/episode marker (parse_tv alone)
MaxRestTokens == 1

\* ------------------------------------------------------- program constants
\* find_large_extensionless(min_bytes = 100 * 1024 * 1024)
MinBytes == 104857600
\* for i in range(1, 1000): the last suffix tried
LastSuffix == 999

COMPLETE == <<"mnt", "jace_complete">>
MEDIA == <<"mnt", "jace_media">>
CODA_HOME == <<"mnt", "jace_coda">>
SRC_SERIES == COMPLETE \o <<"Series">>
SRC_MOVIES == COMPLETE \o <<"Movies">>
DST_TV == MEDIA \o <<"Video", "TV">>
DST_MOVIES == MEDIA \o <<"Video", "Movies">>
RECYCLE == COMPLETE \o <<"#recycle", "process-downloads">>
LOG_DIR == CODA_HOME \o <<"logs">>
SKIP_NAMES == {".DS_Store", "#recycle"}
VIDEO_EXTS == {".mkv", ".mp4", ".avi", ".mov", ".m4v", ".wmv"}

\* dt.datetime.now().strftime("%Y-%m-%d"): the day of the run
Today == "2026-01-01"

\* ---------------------------------------------------------- path algebra
NoPath == << >>
Parent(p) == SubSeq(p, 1, Len(p) - 1)
Name(p) == p[Len(p)]
Prefixes(p) == {SubSeq(p, 1, k) : k \in 1..Len(p)}
IsUnder(p, root) == Len(root) <= Len(p) /\ SubSeq(p, 1, Len(root)) = root
Rebase(p, from, to) == to \o SubSeq(p, Len(from) + 1, Len(p))

\* Path.exists()
PathExists(d, f, p) == p \in d \/ p \in DOMAIN f

\* the part of the filesystem at and below root
TreeDirs(d, root) == {p \in d : IsUnder(p, root)}
TreeFiles(f, root) == [p \in {q \in DOMAIN f : IsUnder(q, root)} |-> f[p]]

\* ----------------------------------------------------------- release names
\* A release name is a string; Split gives its period-separated tokens.
\* digits: the decimal digits of a token made of digits only;
\* se: the four digits of a token that starts with SnnEnn (any case)
\* followed by a word boundary.
Word(s) == [text |-> s, digits |-> << >>, se |-> << >>]
Num(s, d) == [text |-> s, digits |-> d, se |-> << >>]
Marker(s, d) == [text |-> s, digits |-> << >>, se |-> d]

TV_A == "Show.2020.S01E02.1080p"
TV_B == "Show.2020.S01E03"
TV_C == "Show.S02E10.WEB"
MOVIE_A == "Movie.Title.1999.BluRay"
IRREGULAR == "randomfolder"
STRAY_FILE == "notes.txt"
DS_STORE == ".DS_Store"

Split(name) ==
    CASE name = TV_A -> <<Word("Show"), Num("2020", <<2, 0, 2, 0>>),
                          Marker("S01E02", <<0, 1, 0, 2>>), Word("1080p")>>
      [] name = TV_B -> <<Word("Show"), Num("2020", <<2, 0, 2, 0>>),
                          Marker("S01E03", <<0, 1, 0, 3>>)>>
      [] name = TV_C -> <<Word("Show"), Marker("S02E10", <<0, 2, 1, 0>>), Word("WEB")>>
      [] name = MOVIE_A -> <<Word("Movie"), Word("Title"), Num("1999", <<1, 9, 9, 9>>),
                             Word("BluRay")>>
      [] OTHER -> <<Word(name)>>

RECURSIVE DigitsToInt(_)
\* int("2020")
DigitsToInt(d) ==
    IF d = << >> THEN 0 ELSE 10 * DigitsToInt(SubSeq(d, 1, Len(d) - 1)) + d[Len(d)]

\* 19\d{2}|20\d{2} as a whole token
IsYearTok(t) ==
    /\ Len(t.digits) = 4
    /\ \/ (t.digits[1] = 1 /\ t.digits[2] = 9)
       \/ (t.digits[1] = 2 /\ t.digits[2] = 0)

\* S\d{2}E\d{2}\b at the start of a token
IsMarkerTok(t) == Len(t.se) = 4

RECURSIVE JoinWords(_)
JoinWords(ts) ==
    IF ts = << >> THEN ""
    ELSE IF Len(ts) = 1 THEN ts[1].text
    ELSE ts[1].text \o " " \o JoinWords(Tail(ts))

\* slug_to_name on the tokens of the captured segment: periods become
\* spaces, runs of spaces collapse, the ends are trimmed
slug_to_name(ts) ==
    LET NonEmpty(t) == t.text # "" IN JoinWords(SelectSeq(ts, NonEmpty))

NoYear == -1
NotParsedTV == [ok |-> FALSE, show |-> "", year |-> NoYear, season |-> 0, episode |-> 0]
NotParsedMovie == [ok |-> FALSE, title |-> "", year |-> NoYear]

\* the show group .+? may end after k tokens (it holds a character at least)
ShowMayEnd(ts, k) == k >= 1 /\ k <= Len(ts) /\ ~(k = 1 /\ ts[1].text = "")

\* the pattern without its year group
TVYearGroupDropped(ts, k) == FALSE

\* the pattern matches with the show ending after k tokens and the year
\* group taken / not taken
TVWithYearAt(ts, k) ==
    ShowMayEnd(ts, k) /\ k + 2 <= Len(ts) /\ IsYearTok(ts[k + 1]) /\ IsMarkerTok(ts[k + 2])
TVNoYearAt(ts, k) ==
    ShowMayEnd(ts, k) /\ k + 1 <= Len(ts) /\ IsMarkerTok(ts[k + 1])

\* TV_RE.match and parse_tv on the tokens of a name: the shortest show
\* segment that lets the rest of the pattern match
parse_tv_tokens(ts) ==
    LET Ks == {k \in 1..Len(ts) : TVWithYearAt(ts, k) \/ TVNoYearAt(ts, k)}
    IN IF Ks = {} THEN NotParsedTV
       ELSE LET k == CHOOSE x \in Ks : \A y \in Ks : x <= y
                m == IF TVWithYearAt(ts, k) THEN ts[k + 2] ELSE ts[k + 1]
            IN [ok |-> TRUE,
                show |-> slug_to_name(SubSeq(ts, 1, k)),
                year |-> IF TVWithYearAt(ts, k) THEN DigitsToInt(ts[k + 1].digits)
                         ELSE NoYear,
                season |-> DigitsToInt(SubSeq(m.se, 1, 2)),
                episode |-> DigitsToInt(SubSeq(m.se, 3, 4))]

\* parse_tv(release)
parse_tv(name) == parse_tv_tokens(Split(name))

\* A release name by its parts: the tokens of the show, the year token if
\* there is one, the season/episode marker, and the tokens after it. The name
\* itself is the parts joined by periods; parse_tv is given the name only.
NoRelease == [show |-> << >>, year |-> << >>, marker |-> << >>, rest |-> << >>]
NameTokens(r) == ((r.show \o r.year) \o r.marker) \o r.rest

\* MOVIE_RE.match and parse_movie
parse_movie(name) ==
    LET ts == Split(name)
        Ks == {k \in 1..Len(ts) : ShowMayEnd(ts, k) /\ k + 1 <= Len(ts)
                                     /\ IsYearTok(ts[k + 1])}
    IN IF Ks = {} THEN NotParsedMovie
       ELSE LET k == CHOOSE x \in Ks : \A y \in Ks : x <= y
            IN [ok |-> TRUE,
                title |-> slug_to_name(SubSeq(ts, 1, k)),
                year |-> DigitsToInt(ts[k + 1].digits)]

\* f"{n:02d}"
Pad2(n) == IF n < 10 THEN "0" \o ToString(n) ELSE ToString(n)

\* dest_dir of process_series_folder
TVDestDir(parsed) ==
    LET show_folder == IF parsed.year = NoYear THEN parsed.show
                       ELSE parsed.show \o " (" \o ToString(parsed.year) \o ")"
        season_folder == "Season " \o Pad2(parsed.season)
    IN DST_TV \o <<show_folder, season_folder>>

\* dest_dir of process_movie_folder
MovieDestDir(parsed) ==
    DST_MOVIES \o <<parsed.title \o " (" \o ToString(parsed.year) \o ")">>

\* ------------------------------------------------------ files of a folder
\* The files a download folder may hold, by path relative to the folder, in
\* the order rglob yields them.
FileOrder ==
    <<<<"a.rar">>, <<"e1.mkv">>, <<"e2.AVI">>, <<"blob1">>, <<"blob2">>, <<"README">>,
      <<"Sub", "b.rar">>, <<"Sub", "e1.mkv">>>>
FileUniverse == {FileOrder[i] : i \in 1..Len(FileOrder)}

\* st_size of the files as downloaded
SizeOf(rel) ==
    CASE Name(rel) = "blob1" -> MinBytes
      [] Name(rel) = "blob2" -> MinBytes + 1
      [] Name(rel) = "README" -> MinBytes - 1
      [] OTHER -> 2 * MinBytes

\* PurePath.suffix
Suffix(name) ==
    CASE name \in {"a.rar", "b.rar"} -> ".rar"
      [] name = "e1.mkv" -> ".mkv"
      [] name = "e2.AVI" -> ".AVI"
      [] name = STRAY_FILE -> ".txt"
      [] OTHER -> ""

\* str.lower() on a suffix
Lower(s) == IF s = ".AVI" THEN ".avi" ELSE s

\* the file an archive unpacks to
PayloadName(name) == IF name = "a.rar" THEN "a.mkv" ELSE "b.mkv"

\* root.rglob("*") restricted to files, in traversal order
FilesUnder(f, root) ==
    LET Present(rel) == (root \o rel) \in DOMAIN f
        Abs(rel) == root \o rel
        rels == SelectSeq(FileOrder, Present)
    IN [i \in 1..Len(rels) |-> Abs(rels[i])]

\* the scan for archives keeping the last one it meets
find_last_rar(f, root) ==
    LET IsRar(p) == Suffix(Name(p)) = ".rar"
        rars == SelectSeq(FilesUnder(f, root), IsRar)
    IN IF rars = << >> THEN NoPath ELSE rars[Len(rars)]

\* find_first_rar
find_first_rar(f, root) ==
    LET IsRar(p) == Suffix(Name(p)) = ".rar"
        rars == SelectSeq(FilesUnder(f, root), IsRar)
    IN IF rars = << >> THEN NoPath ELSE rars[1]

\* find_video_files
find_video_files(f, root) ==
    LET IsVideo(p) == Lower(Suffix(Name(p))) \in VIDEO_EXTS
    IN SelectSeq(FilesUnder(f, root), IsVideo)

\* find_large_extensionless
find_large_extensionless(f, root) ==
    LET IsLarge(p) == Suffix(Name(p)) = "" /\ f[p].size >= MinBytes
    IN SelectSeq(FilesUnder(f, root), IsLarge)

\* the chain with the video branch tested before the archive branch
StrategyVideoFirst(r, vs, es) ==
    IF vs # << >> THEN "video"
    ELSE IF r # NoPath THEN "archive"
    ELSE IF es # << >> THEN "extless"
    ELSE "none"

\* the if / elif / elif / else chain that picks what to do with a folder
StrategyOf(r, vs, es) ==
    IF r # NoPath THEN "archive"
    ELSE IF vs # << >> THEN "video"
    ELSE IF es # << >> THEN "extless"
    ELSE "none"

\* ------------------------------------------------------ directory listing
\* every entry name a source root may hold, as sorted() orders them
SortedNames ==
    <<"#recycle", DS_STORE, MOVIE_A, TV_A, TV_B, TV_C, STRAY_FILE, IRREGULAR>>
StartsWithDot(name) == name = DS_STORE

\* iter_items
iter_items(d, f, src_root) ==
    IF ~PathExists(d, f, src_root) THEN << >>
    ELSE LET Listed(n) == /\ PathExists(d, f, src_root \o <<n>>)
                          /\ n \notin SKIP_NAMES
                          /\ ~StartsWithDot(n)
             names == SelectSeq(SortedNames, Listed)
         IN [i \in 1..Len(names) |-> src_root \o <<names[i]>>]

\* ------------------------------------------------- filesystem operations
\* ensure_dir creating the directory in a dry run too
ensure_dir_ignoring_mode(d, f, path, r) ==
    IF PathExists(d, f, path) THEN d ELSE d \cup Prefixes(path)

\* ensure_dir logging the mkdir without making the directory
ensure_dir_only_logging(d, f, path, r) == d

\* ensure_dir: the directories after the call
ensure_dir_fs(d, f, path, r) ==
    IF PathExists(d, f, path) THEN d
    ELSE IF r THEN d \cup Prefixes(path)
    ELSE d

Line(op, a, b) == [op |-> op, a |-> a, b |-> b]

\* ensure_dir: the line it logs
ensure_dir_log(d, f, path) ==
    IF PathExists(d, f, path) THEN << >> ELSE <<Line("mkdir", path, NoPath)>>

\* log_line creates the log directory before it appends
log_line_fs(d, lines) == IF lines = << >> THEN d ELSE d \cup Prefixes(LOG_DIR)

\* shutil.move: an existing directory as target receives the source inside it
MoveTarget(d, src, dst) == IF dst \in d THEN dst \o <<Name(src)>> ELSE dst

\* a copy in place of the move: the source stays
MoveDirsKeepingSource(d, src, dst) ==
    LET real == MoveTarget(d, src, dst)
    IN d \cup {Rebase(p, src, real) : p \in {q \in d : IsUnder(q, src)}}

MoveDirs(d, src, dst) ==
    LET real == MoveTarget(d, src, dst)
    IN {IF IsUnder(p, src) THEN Rebase(p, src, real) ELSE p : p \in d}

\* a file already at the target path is replaced
MoveFiles(d, f, src, dst) ==
    LET real == MoveTarget(d, src, dst)
        To(p) == IF IsUnder(p, src) THEN Rebase(p, src, real) ELSE p
        Moving == {p \in DOMAIN f : IsUnder(p, src)}
    IN [q \in {To(p) : p \in DOMAIN f} |->
          IF \E p \in Moving : To(p) = q
          THEN f[CHOOSE p \in Moving : To(p) = q]
          ELSE f[q]]

\* the tool deleting the archive once it is unpacked (unrar -df)
UnrarDeletingArchive(f, archive, dest) ==
    LET out == dest \o <<PayloadName(Name(archive))>>
        g == (out :> [id |-> <<"unrar">> \o archive, size |-> 2 * MinBytes]) @@ f
    IN [p \in DOMAIN g \ {archive} |-> g[p]]

\* unrar e -o+ rar dest_dir: the unpacked file lands in dest_dir, replacing
\* a file of the same name; the archive and its folder are only read
UnrarFiles(f, archive, dest) ==
    LET out == dest \o <<PayloadName(Name(archive))>>
    IN (out :> [id |-> <<"unrar">> \o archive, size |-> 2 * MinBytes]) @@ f

\* the exit status ignored
ExtractAlwaysSucceeded(c) == TRUE

\* code == 0
ExtractSucceeded(c) == c = 0

RecyclePath(name) == RECYCLE \o <<Today, name>>
Suffixed(name, i) == name \o "." \o ToString(i)

\* the loop over range(1, 1000): the first suffix whose candidate does not
\* exist, 0 when the loop ends without one
FirstFreeSuffix(d, f, name) ==
    LET Free(i) == ~PathExists(d, f, RecyclePath(Suffixed(name, i)))
    IN IF \E i \in 1..LastSuffix : Free(i)
       THEN CHOOSE i \in 1..LastSuffix : Free(i) /\ \A j \in 1..(i - 1) : ~Free(j)
       ELSE 0

unique_recycle_dest(d, f, src_folder, p) ==
    LET name == Name(src_folder)
        i == FirstFreeSuffix(d, f, name)
    IN IF ~PathExists(d, f, RecyclePath(name)) THEN RecyclePath(name)
       ELSE IF i # 0 THEN RecyclePath(Suffixed(name, i))
       ELSE RecyclePath(Suffixed(name, p))

\* ------------------------------------------------------------------ state
VARIABLES
    dirs,          \* the directories that exist
    files,         \* file path -> [id, size]
    run,           \* --run was given: perform the changes
    pid,           \* os.getpid() of this invocation
    runs,          \* invocations started so far
    pc,            \* position of the invocation
    phase,         \* "series" or "movies": the loop of main that is running
    queue,         \* the entries the running loop has still to visit
    exit_code,     \* return value of main, -1 while it runs
    folder,        \* the folder being processed
    dest_dir,
    rar, vids, extless,
    idx,           \* position of the move loop in vids or extless
    moved_any,
    recycle_dest,
    details,
    code,          \* exit status of the extraction tool for this folder, -1: not run
    log,           \* the lines log_line wrote in this invocation
    results,       \* main's results list
    ops,           \* the filesystem changes executed for the current folder
    item0,         \* the filesystem when the current folder was started
    run0,          \* the filesystem when this invocation started
    prev,          \* mode, log, results and exit code of the invocation before
    name_parts,    \* parse_tv alone: the release name it is called with, by its parts
    parse_out      \* parse_tv alone: what its successive calls returned

fsVars == <<dirs, files>>
parseVars == <<name_parts, parse_out>>
itemVars == <<folder, dest_dir, rar, vids, extless, idx, moved_any, recycle_dest, details, code>>
vars == <<dirs, files, run, pid, runs, name_parts, parse_out, pc, phase, queue,
          exit_code, folder, dest_dir, rar,
          vids, extless, idx, moved_any, recycle_dest, details, code, log, results, ops,
          item0, run0, prev>>

\* --------------------------------------------------------------- results
NoDetails ==
    [kind |-> "", release |-> "", status |-> "", reason |-> "", path |-> NoPath,
     dest |-> NoPath, recycled_to |-> NoPath]

\* the result of a name that does not parse, reported as a success
UnparseableReportedOk(kind, release, path) ==
    [kind |-> kind, release |-> release, status |-> "ok", reason |-> "",
     path |-> path, dest |-> NoPath, recycled_to |-> NoPath]

\* the dict returned for a name that does not parse
UnparseableResult(kind, release, path) ==
    [kind |-> kind, release |-> release, status |-> "error", reason |-> "unparseable",
     path |-> path, dest |-> NoPath, recycled_to |-> NoPath]

\* details as first built: status ok, no reason, no recycled_to
NewDetails(kind, release, dest, path) ==
    [kind |-> kind, release |-> release, status |-> "ok", reason |-> "",
     path |-> path, dest |-> dest, recycled_to |-> NoPath]

\* an error result that still names a recycle path
ErrorResultNamingRecycle(det, reason) ==
    [det EXCEPT !.status = "error", !.reason = reason,
                !.recycled_to = RECYCLE \o <<Today, det.release>>]

\* {**details, "status": "error", "reason": reason}
ErrorResult(det, reason) == [det EXCEPT !.status = "error", !.reason = reason]

Kind == IF phase = "series" THEN "tv" ELSE "movie"
Snapshot == [dirs |-> dirs, files |-> files, loglen |-> Len(log)]

\* ------------------------------------------------------------ initial state
BaseDirs ==
    UNION {Prefixes(r) : r \in {SRC_SERIES, SRC_MOVIES, DST_TV, DST_MOVIES, CODA_HOME}}

FolderDirs(path, S) == {path} \cup {path \o Parent(rel) : rel \in S}
FolderFiles(path, S) ==
    [p \in {path \o rel : rel \in S} |->
        [id |-> p, size |-> SizeOf(SubSeq(p, Len(path) + 1, Len(p)))]]

ContentSets == {S \in SUBSET FileUniverse : Cardinality(S) <= MaxFiles}
SmallContents == {{}, {<<"a.rar">>}, {<<"e1.mkv">>}}

Slot(root, name) == [root |-> root, name |-> name]
SlotPath(s) == s.root \o <<s.name>>
SingleSlots ==
    {Slot(SRC_SERIES, TV_A), Slot(SRC_SERIES, IRREGULAR),
     Slot(SRC_MOVIES, MOVIE_A), Slot(SRC_MOVIES, IRREGULAR)}
MultiSlots ==
    {Slot(SRC_SERIES, TV_A), Slot(SRC_SERIES, TV_B), Slot(SRC_SERIES, IRREGULAR),
     Slot(SRC_MOVIES, MOVIE_A), Slot(SRC_MOVIES, IRREGULAR)}

\* where the folder of a slot would be delivered, NoPath when its name does not parse
SlotDest(s) ==
    IF s.root = SRC_SERIES
    THEN (IF parse_tv(s.name).ok THEN TVDestDir(parse_tv(s.name)) ELSE NoPath)
    ELSE (IF parse_movie(s.name).ok THEN MovieDestDir(parse_movie(s.name)) ELSE NoPath)

\* the library before the run: the destination directory of the folder is
\* missing, with the parents it has below the library root, or it exists
DestMenu(s) ==
    IF SlotDest(s) = NoPath THEN {{}} ELSE {{}, Prefixes(SlotDest(s))}

\* what a folder may hold: anything when its name parses; a folder whose name
\* does not parse is never looked into
ContentsOf(s) == IF SlotDest(s) = NoPath THEN {{<<"e1.mkv">>}} ELSE ContentSets
SmallContentsOf(s) == IF SlotDest(s) = NoPath THEN {{<<"e1.mkv">>}} ELSE SmallContents

\* the recycle area before the run: no folder for today, or one that already
\* holds an entry of this name, or that entry and the one suffixed .1
RecycleMenu(name) ==
    {{},
     Prefixes(RecyclePath(name)),
     Prefixes(RecyclePath(name)) \cup {RecyclePath(Suffixed(name, 1))}}

InitProcess ==
    /\ run \in BOOLEAN
    /\ pid = 4242
    /\ runs = 1
    /\ pc = "main"
    /\ phase = "series"
    /\ queue = << >>
    /\ exit_code = -1
    /\ folder = NoPath
    /\ dest_dir = NoPath
    /\ rar = NoPath
    /\ vids = << >>
    /\ extless = << >>
    /\ idx = 0
    /\ moved_any = FALSE
    /\ recycle_dest = NoPath
    /\ details = NoDetails
    /\ code = -1
    /\ log = << >>
    /\ results = << >>
    /\ ops = << >>
    /\ item0 = Snapshot
    /\ run0 = Snapshot
    /\ prev = [valid |-> FALSE, run |-> FALSE, log |-> << >>, results |-> << >>,
               exit_code |-> -1]
    /\ name_parts = NoRelease
    /\ parse_out = << >>

\* one download folder with any contents
InitSingle ==
    /\ \E s \in SingleSlots :
         \E S \in ContentsOf(s), dm \in DestMenu(s), rm \in RecycleMenu(s.name) :
            /\ dirs = BaseDirs \cup FolderDirs(SlotPath(s), S) \cup dm \cup rm
            /\ files = FolderFiles(SlotPath(s), S)
    /\ InitProcess

\* several download folders, a stray file and a .DS_Store in the series root
InitSeveral ==
    /\ \E chosen \in SUBSET MultiSlots :
         /\ Cardinality(chosen) >= 2
         /\ Cardinality(chosen) <= MaxItems
         /\ \E c \in {x \in [chosen -> SmallContents] :
                         \A s \in chosen : x[s] \in SmallContentsOf(s)} :
              /\ dirs = BaseDirs \cup UNION {FolderDirs(SlotPath(s), c[s]) : s \in chosen}
              /\ files =
                   LET all == UNION {{<<s, rel>> : rel \in c[s]} : s \in chosen}
                       P(x) == SlotPath(x[1]) \o x[2]
                   IN [p \in {P(x) : x \in all} \cup
                             {SRC_SERIES \o <<STRAY_FILE>>, SRC_SERIES \o <<DS_STORE>>} |->
                         [id |-> p,
                          size |-> IF Len(p) > Len(SRC_SERIES) + 1
                                   THEN SizeOf(SubSeq(p, Len(SRC_SERIES) + 2, Len(p)))
                                   ELSE 1]]
    /\ InitProcess

\* one of the roots main needs is missing
InitMissingRoot ==
    /\ \E r \in {SRC_SERIES, SRC_MOVIES, DST_TV, DST_MOVIES, CODA_HOME} :
         LET there == {p \in BaseDirs : ~IsUnder(p, r)}
             src == SRC_MOVIES \o <<MOVIE_A>>
             has == SRC_MOVIES \in there
         IN /\ dirs = there \cup (IF has THEN FolderDirs(src, {<<"e1.mkv">>}) ELSE {})
            /\ files = FolderFiles(src, IF has THEN {<<"e1.mkv">>} ELSE {})
    /\ InitProcess

Init == InitSingle \/ InitSeveral \/ InitMissingRoot

\* ----------------------------------------------------------------- main
\* the sanity checks looking at the source roots and the log home only
RequiredWithoutLibrary == <<SRC_SERIES, SRC_MOVIES, CODA_HOME>>

\* for p in [SRC_SERIES, SRC_MOVIES, DST_TV, DST_MOVIES, CODA_HOME]
REQUIRED == <<SRC_SERIES, SRC_MOVIES, DST_TV, DST_MOVIES, CODA_HOME>>

\* main up to the first loop: the sanity checks, the start line, and the
\* listing of the series root
MainStart ==
    /\ pc = "main"
    /\ LET Missing(p) == ~PathExists(dirs, files, p)
           missing == SelectSeq(REQUIRED, Missing)
       IN IF missing # << >>
          THEN /\ log' = Append(log, Line("missing", missing[1], NoPath))
               /\ exit_code' = 2
               /\ pc' = "exit"
               /\ queue' = << >>
          ELSE /\ log' = Append(log, Line("start", <<IF run THEN "RUN" ELSE "DRY_RUN">>,
                                          NoPath))
               /\ exit_code' = -1
               /\ pc' = "next"
               /\ queue' = iter_items(dirs, files, SRC_SERIES)
    /\ dirs' = log_line_fs(dirs, log')
    /\ phase' = "series"
    /\ UNCHANGED <<files, run, pid, runs, parseVars, itemVars, results, ops, item0, run0, prev>>

\* the head of either loop: an entry that is no directory is passed over,
\* a directory is handed to process_series_folder / process_movie_folder
NextItem ==
    /\ pc = "next"
    /\ queue # << >>
    /\ queue' = Tail(queue)
    /\ IF Head(queue) \in dirs
       THEN /\ pc' = "process"
            /\ folder' = Head(queue)
            /\ ops' = << >>
            /\ item0' = Snapshot
            /\ dest_dir' = NoPath
            /\ rar' = NoPath
            /\ vids' = << >>
            /\ extless' = << >>
            /\ idx' = 0
            /\ moved_any' = FALSE
            /\ recycle_dest' = NoPath
            /\ details' = NoDetails
            /\ code' = -1
       ELSE UNCHANGED <<pc, itemVars, ops, item0>>
    /\ UNCHANGED <<fsVars, run, pid, runs, parseVars, phase, exit_code, log, results, run0, prev>>

\* the series loop is over: the movies root is listed
NextRoot ==
    /\ pc = "next"
    /\ queue = << >>
    /\ phase = "series"
    /\ phase' = "movies"
    /\ queue' = iter_items(dirs, files, SRC_MOVIES)
    /\ UNCHANGED <<fsVars, run, pid, runs, parseVars, pc, exit_code, itemVars, log, results, ops,
                   item0, run0, prev>>

CountStatus(rs, ok) ==
    Cardinality({i \in 1..Len(rs) : (rs[i].status = "ok") = ok})

\* both loops are over: the counts, the done line and the exit code
Summary ==
    /\ pc = "next"
    /\ queue = << >>
    /\ phase = "movies"
    /\ LET ok == CountStatus(results, TRUE)
           err == CountStatus(results, FALSE)
       IN /\ log' = Append(log, Line("done", <<ToString(ok), ToString(err)>>, NoPath))
          /\ exit_code' = IF err = 0 THEN 0 ELSE 1
    /\ pc' = "exit"
    /\ UNCHANGED <<fsVars, run, pid, runs, parseVars, phase, queue, itemVars, results, ops, item0,
                   run0, prev>>

\* the script is started again
NextRun ==
    /\ pc = "exit"
    /\ runs < MaxRuns
    /\ runs' = runs + 1
    /\ run' \in BOOLEAN
    /\ pid' = pid + 1
    /\ prev' = [valid |-> TRUE, run |-> run, log |-> log, results |-> results,
                exit_code |-> exit_code]
    /\ pc' = "main"
    /\ phase' = "series"
    /\ queue' = << >>
    /\ exit_code' = -1
    /\ log' = << >>
    /\ results' = << >>
    /\ ops' = << >>
    /\ item0' = Snapshot
    /\ run0' = Snapshot
    /\ folder' = NoPath
    /\ dest_dir' = NoPath
    /\ rar' = NoPath
    /\ vids' = << >>
    /\ extless' = << >>
    /\ idx' = 0
    /\ moved_any' = FALSE
    /\ recycle_dest' = NoPath
    /\ details' = NoDetails
    /\ code' = -1
    /\ UNCHANGED <<fsVars, parseVars>>

\* ------------------------------------- process_series_folder / _movie_folder
\* an error result ending the run instead of going on with the next entry
ReturnStoppingAtError(r) ==
    /\ results' = Append(results, r)
    /\ details' = r
    /\ pc' = IF r.status = "error" THEN "exit" ELSE "next"

\* a folder is done: its result joins main's list
Return(r) ==
    /\ results' = Append(results, r)
    /\ details' = r
    /\ pc' = "next"

\* the name is parsed; on a match the destination directory is computed
Process ==
    /\ pc = "process"
    /\ LET release == Name(folder)
           parsed == IF phase = "series" THEN parse_tv(release) ELSE parse_movie(release)
       IN IF ~parsed.ok
          THEN /\ log' = Append(log, Line("irregular_name", folder, NoPath))
               /\ Return(UnparseableResult(Kind, release, folder))
               /\ UNCHANGED dest_dir
          ELSE /\ dest_dir' = IF phase = "series" THEN TVDestDir(parsed)
                              ELSE MovieDestDir(parsed)
               /\ pc' = "ensure_dest"
               /\ UNCHANGED <<log, results, details>>
    /\ dirs' = log_line_fs(dirs, log')
    /\ UNCHANGED <<files, run, pid, runs, parseVars, phase, queue, exit_code, folder, rar, vids,
                   extless, idx, moved_any, recycle_dest, code, ops, item0, run0, prev>>

\* ensure_dir(dest_dir, run), first thing after the name is parsed
EnsureDest ==
    /\ pc = "ensure_dest"
    /\ log' = log \o ensure_dir_log(dirs, files, dest_dir)
    /\ dirs' = log_line_fs(ensure_dir_fs(dirs, files, dest_dir, run), log' )
    /\ ops' = ops \o (IF dirs' # dirs THEN <<Line("mkdir", dest_dir, NoPath)>> ELSE << >>)
    /\ pc' = "scan"
    /\ UNCHANGED <<files, run, pid, runs, parseVars, phase, queue, exit_code, itemVars, results,
                   item0, run0, prev>>

\* the three scans, details, and the choice of what to do
Scan ==
    /\ pc = "scan"
    /\ rar' = find_first_rar(files, folder)
    /\ vids' = find_video_files(files, folder)
    /\ extless' = find_large_extensionless(files, folder)
    /\ moved_any' = FALSE
    /\ LET det == NewDetails(Kind, Name(folder), dest_dir, folder)
           what == StrategyOf(rar', vids', extless')
       IN IF what = "none"
          THEN /\ log' = Append(log, Line("irregular_empty", folder, NoPath))
               /\ Return(ErrorResult(det, "no_media_found"))
               /\ idx' = 0
          ELSE /\ details' = det
               /\ pc' = what
               /\ idx' = 1
               /\ UNCHANGED <<log, results>>
    /\ dirs' = log_line_fs(dirs, log')
    /\ UNCHANGED <<files, run, pid, runs, parseVars, phase, queue, exit_code, folder, dest_dir,
                   recycle_dest, code, ops, item0, run0, prev>>

\* extract_rar up to the call of the tool: ensure_dir, the unrar line, and
\* in a dry run the return of (True, "DRY_RUN")
Extract ==
    /\ pc = "archive"
    /\ log' = (log \o ensure_dir_log(dirs, files, dest_dir))
                \o <<Line("unrar", rar, dest_dir)>>
    /\ dirs' = log_line_fs(ensure_dir_fs(dirs, files, dest_dir, run), log')
    /\ ops' = ops \o (IF dirs' # dirs THEN <<Line("mkdir", dest_dir, NoPath)>> ELSE << >>)
    /\ IF run
       THEN pc' = "unrar" /\ UNCHANGED moved_any
       ELSE pc' = "retire" /\ moved_any' = TRUE
    /\ UNCHANGED <<files, run, pid, runs, parseVars, phase, queue, exit_code, folder, dest_dir, rar,
                   vids, extless, idx, recycle_dest, details, code, results, item0, run0,
                   prev>>

ExitCodes == {0, 1}

\* run_cmd(["unrar", ...]) and what follows its return: the tool ends with
\* any exit status; when the status is not zero it may have unpacked nothing
Unrar ==
    /\ pc = "unrar"
    /\ \E c \in ExitCodes, wrote \in BOOLEAN :
         /\ (c = 0 => wrote)
         /\ code' = c
         /\ files' = IF wrote THEN UnrarFiles(files, rar, dest_dir) ELSE files
         /\ ops' = Append(ops, Line("unrar", rar, dest_dir))
         /\ IF ExtractSucceeded(c)
            THEN /\ moved_any' = TRUE
                 /\ pc' = "retire"
                 /\ UNCHANGED <<log, results, details>>
            ELSE /\ log' = Append(log, Line("unrar_failed", rar, NoPath))
                 /\ Return(ErrorResult(details, "unrar_failed"))
                 /\ UNCHANGED moved_any
    /\ dirs' = log_line_fs(dirs, log')
    /\ UNCHANGED <<run, pid, runs, parseVars, phase, queue, exit_code, folder, dest_dir, rar, vids,
                   extless, idx, recycle_dest, item0, run0, prev>>

\* move_path(src, dst, run): ensure_dir(dst.parent), the move, the move line
MovePath(src, dst) ==
    LET d1 == ensure_dir_fs(dirs, files, Parent(dst), run)
    IN /\ log' = (log \o ensure_dir_log(dirs, files, Parent(dst)))
                   \o <<Line("move", src, dst)>>
       /\ files' = IF run THEN MoveFiles(d1, files, src, dst) ELSE files
       /\ dirs' = log_line_fs(IF run THEN MoveDirs(d1, src, dst) ELSE d1, log')
       /\ ops' = (ops \o (IF d1 # dirs THEN <<Line("mkdir", Parent(dst), NoPath)>>
                          ELSE << >>))
                   \o (IF run THEN <<Line("move", src, dst)>> ELSE << >>)

\* the video loop without its moved_any = True
MoveVideoLeavingFlag ==
    /\ pc = "video"
    /\ idx <= Len(vids)
    /\ MovePath(vids[idx], dest_dir \o <<Name(vids[idx])>>)
    /\ idx' = idx + 1
    /\ pc' = IF idx = Len(vids) THEN "retire" ELSE "video"
    /\ UNCHANGED <<run, pid, runs, parseVars, phase, queue, exit_code, folder, dest_dir,
                   rar, vids, extless, moved_any, recycle_dest, details, code, results,
                   item0, run0, prev>>

\* one turn of: for v in vids: move_path(v, dest_dir / v.name, run)
MoveVideo ==
    /\ pc = "video"
    /\ idx <= Len(vids)
    /\ MovePath(vids[idx], dest_dir \o <<Name(vids[idx])>>)
    /\ moved_any' = TRUE
    /\ idx' = idx + 1
    /\ pc' = IF idx = Len(vids) THEN "retire" ELSE "video"
    /\ UNCHANGED <<run, pid, runs, parseVars, phase, queue, exit_code, folder, dest_dir, rar, vids,
                   extless, recycle_dest, details, code, results, item0, run0, prev>>

\* one turn of: for f in extless: move_path(f, dest_dir / f"{release}.mkv", run)
MoveExtless ==
    /\ pc = "extless"
    /\ idx <= Len(extless)
    /\ MovePath(extless[idx], dest_dir \o <<Name(folder) \o ".mkv">>)
    /\ moved_any' = TRUE
    /\ idx' = idx + 1
    /\ pc' = IF idx = Len(extless) THEN "retire" ELSE "extless"
    /\ UNCHANGED <<run, pid, runs, parseVars, phase, queue, exit_code, folder, dest_dir, rar, vids,
                   extless, recycle_dest, details, code, results, item0, run0, prev>>

\* if moved_any: the recycle path is computed and its date folder ensured
Retire ==
    /\ pc = "retire"
    /\ IF moved_any
       THEN /\ recycle_dest' = unique_recycle_dest(dirs, files, folder, pid)
            /\ log' = log \o ensure_dir_log(dirs, files, Parent(recycle_dest'))
            /\ dirs' = log_line_fs(ensure_dir_fs(dirs, files, Parent(recycle_dest'), run),
                                   log')
            /\ ops' = ops \o (IF dirs' # dirs
                              THEN <<Line("mkdir", Parent(recycle_dest'), NoPath)>>
                              ELSE << >>)
            /\ pc' = "recycle"
            /\ UNCHANGED <<results, details>>
       ELSE /\ Return(details)
            /\ UNCHANGED <<dirs, log, ops, recycle_dest>>
    /\ UNCHANGED <<files, run, pid, runs, parseVars, phase, queue, exit_code, folder, dest_dir, rar,
                   vids, extless, idx, moved_any, code, item0, run0, prev>>

\* shutil.move(folder, recycle_dest) when performing, the recycle line,
\* details["recycled_to"], return details
Recycle ==
    /\ pc = "recycle"
    /\ files' = IF run THEN MoveFiles(dirs, files, folder, recycle_dest) ELSE files
    /\ log' = Append(log, Line("recycle", folder, recycle_dest))
    /\ dirs' = log_line_fs(IF run THEN MoveDirs(dirs, folder, recycle_dest) ELSE dirs, log')
    /\ ops' = ops \o (IF run THEN <<Line("recycle", folder, recycle_dest)>> ELSE << >>)
    /\ Return([details EXCEPT !.recycled_to = recycle_dest])
    /\ UNCHANGED <<run, pid, runs, parseVars, phase, queue, exit_code, folder, dest_dir, rar, vids,
                   extless, idx, moved_any, recycle_dest, code, item0, run0, prev>>

ItemPcs == {"process", "ensure_dest", "scan", "archive", "unrar", "video", "extless",
            "retire", "recycle"}

\* the process is killed while it works on a folder; a dry run changes
\* nothing, so only the kill of a performing run leaves a state of its own
Interrupt ==
    /\ pc \in ItemPcs
    /\ run
    /\ pc' = "killed"
    /\ UNCHANGED <<fsVars, run, pid, runs, parseVars, phase, queue, exit_code, itemVars, log,
                   results, ops, item0, run0, prev>>

\* the process is killed while the extraction tool runs: the tool may have
\* unpacked a part of the archive into the destination directory
InterruptUnrar ==
    /\ pc = "unrar"
    /\ run
    /\ files' = UnrarFiles(files, rar, dest_dir)
    /\ ops' = Append(ops, Line("unrar", rar, dest_dir))
    /\ pc' = "killed"
    /\ UNCHANGED <<dirs, run, pid, runs, parseVars, phase, queue, exit_code, itemVars, log, results,
                   item0, run0, prev>>

Next ==
    \/ MainStart
    \/ NextItem
    \/ NextRoot
    \/ Summary
    \/ NextRun
    \/ Process
    \/ EnsureDest
    \/ Scan
    \/ Extract
    \/ Unrar
    \/ MoveVideo
    \/ MoveExtless
    \/ Retire
    \/ Recycle
    \/ Interrupt
    \/ InterruptUnrar

Spec == Init /\ [][Next]_vars

\* ------------------------------------------------ unique_recycle_dest alone
\* The recycle area for today holds the entry of the folder's name and its
\* suffixed entries .1 to .k, and possibly entries with larger suffixes.
Occupied(name, k) ==
    Prefixes(RecyclePath(name)) \cup {RecyclePath(Suffixed(name, i)) : i \in 1..k}
Pids == {1, 7, LastSuffix, LastSuffix + 1, 4242}

InitRecycle ==
    /\ \E s \in {Slot(SRC_SERIES, TV_A), Slot(SRC_MOVIES, MOVIE_A)} :
         /\ folder = SlotPath(s)
         /\ \E occ \in {{}} \cup {Occupied(s.name, k) :
                                    k \in {0, 1, 2, LastSuffix - 1, LastSuffix}},
               more \in SUBSET {RecyclePath(Suffixed(s.name, LastSuffix + 1)),
                                RecyclePath(Suffixed(s.name, 4242))} :
              dirs = (BaseDirs \cup FolderDirs(folder, {<<"e1.mkv">>})) \cup occ
                       \cup (IF more = {} THEN {} ELSE Prefixes(RecyclePath(s.name)) \cup more)
         /\ files = FolderFiles(folder, {<<"e1.mkv">>})
    /\ pid \in Pids
    /\ run \in BOOLEAN
    /\ runs = 1
    /\ pc = "urd_call"
    /\ phase = "series"
    /\ queue = << >>
    /\ exit_code = -1
    /\ dest_dir = NoPath
    /\ rar = NoPath
    /\ vids = << >>
    /\ extless = << >>
    /\ idx = 0
    /\ moved_any = TRUE
    /\ recycle_dest = NoPath
    /\ details = NoDetails
    /\ code = -1
    /\ log = << >>
    /\ results = << >>
    /\ ops = << >>
    /\ item0 = Snapshot
    /\ run0 = Snapshot
    /\ prev = [valid |-> FALSE, run |-> FALSE, log |-> << >>, results |-> << >>,
               exit_code |-> -1]
    /\ name_parts = NoRelease
    /\ parse_out = << >>

\* recycle_dest = unique_recycle_dest(folder)
UniqueRecycleDestCall ==
    /\ pc = "urd_call"
    /\ recycle_dest' = unique_recycle_dest(dirs, files, folder, pid)
    /\ pc' = "urd_done"
    /\ UNCHANGED <<fsVars, run, pid, runs, parseVars, phase, queue, exit_code, folder, dest_dir, rar,
                   vids, extless, idx, moved_any, details, code, log, results, ops, item0,
                   run0, prev>>

NextRecycle == UniqueRecycleDestCall

SpecRecycle == InitRecycle /\ [][NextRecycle]_vars

\* ------------------------------------------------------------ parse_tv alone
\* The tokens a name is built of. Among the title tokens are numbers that look
\* like a year and are none (1899, 2100, 20201), a year, a near marker
\* (S01E023: no word boundary after the second pair) and a marker.
TitleTokens ==
    {Word("Show"), Num("1899", <<1, 8, 9, 9>>), Num("2100", <<2, 1, 0, 0>>),
     Num("20201", <<2, 0, 2, 0, 1>>), Num("2020", <<2, 0, 2, 0>>),
     Word("S01E023"), Marker("S09E09", <<0, 9, 0, 9>>)}
YearTokens ==
    {[tok |-> Num("1900", <<1, 9, 0, 0>>), val |-> 1900],
     [tok |-> Num("1999", <<1, 9, 9, 9>>), val |-> 1999],
     [tok |-> Num("2000", <<2, 0, 0, 0>>), val |-> 2000],
     [tok |-> Num("2099", <<2, 0, 9, 9>>), val |-> 2099]}
MarkerTokens ==
    {[tok |-> Marker("S01E02", <<0, 1, 0, 2>>), season |-> 1, episode |-> 2],
     [tok |-> Marker("s10e11", <<1, 0, 1, 1>>), season |-> 10, episode |-> 11],
     [tok |-> Marker("S00E99-GRP", <<0, 0, 9, 9>>), season |-> 0, episode |-> 99]}
RestTokens == {Word("1080p"), Num("2021", <<2, 0, 2, 1>>), Marker("S03E04", <<0, 3, 0, 4>>)}

SeqsUpTo(S, lo, hi) == UNION {[1..n -> S] : n \in lo..hi}

ReleaseNames ==
    {[show |-> sh, year |-> yr, marker |-> <<m.tok>>, rest |-> rs] :
        sh \in SeqsUpTo(TitleTokens, 1, MaxShowTokens),
        yr \in {<< >>} \cup {<<y.tok>> : y \in YearTokens},
        m \in MarkerTokens,
        rs \in SeqsUpTo(RestTokens, 0, MaxRestTokens)}

InitParse ==
    /\ name_parts \in ReleaseNames
    /\ parse_out = << >>
    /\ pc = "parse_call"
    /\ dirs = BaseDirs
    /\ files = FolderFiles(NoPath, {})
    /\ run = FALSE
    /\ pid = 4242
    /\ runs = 1
    /\ phase = "series"
    /\ queue = << >>
    /\ exit_code = -1
    /\ folder = NoPath
    /\ dest_dir = NoPath
    /\ rar = NoPath
    /\ vids = << >>
    /\ extless = << >>
    /\ idx = 0
    /\ moved_any = FALSE
    /\ recycle_dest = NoPath
    /\ details = NoDetails
    /\ code = -1
    /\ log = << >>
    /\ results = << >>
    /\ ops = << >>
    /\ item0 = Snapshot
    /\ run0 = Snapshot
    /\ prev = [valid |-> FALSE, run |-> FALSE, log |-> << >>, results |-> << >>,
               exit_code |-> -1]

\* parsed = parse_tv(release), called on the same name a first and a second time
ParseTvCall ==
    /\ pc \in {"parse_call", "parse_again"}
    /\ parse_out' = Append(parse_out, parse_tv_tokens(NameTokens(name_parts)))
    /\ pc' = IF pc = "parse_call" THEN "parse_again" ELSE "parse_done"
    /\ UNCHANGED <<fsVars, run, pid, runs, name_parts, phase, queue, exit_code, itemVars,
                   log, results, ops, item0, run0, prev>>

NextParse == ParseTvCall

SpecParse == InitParse /\ [][NextParse]_vars

\* ------------------------------------------------------------ vocabulary
\* process_*_folder has returned for `folder` and nothing was started since
Returned == pc \in {"next", "exit"} /\ folder # NoPath
\* the process is at work on `folder`, or was killed while it was
InItem == pc \in ItemPcs \cup {"killed"}

FolderParsed(p) ==
    IF IsUnder(p, SRC_SERIES) THEN parse_tv(Name(p)) ELSE parse_movie(Name(p))

\* what the three scans find in the folder as it was when the item started
Rar0 == find_first_rar(item0.files, folder)
Vids0 == find_video_files(item0.files, folder)
Extless0 == find_large_extensionless(item0.files, folder)
NoMedia0 == Rar0 = NoPath /\ Vids0 = << >> /\ Extless0 = << >>

\* the source folder and everything in it is where it was at the item's start
SourceUntouched ==
    /\ TreeDirs(dirs, folder) = TreeDirs(item0.dirs, folder)
    /\ TreeFiles(files, folder) = TreeFiles(item0.files, folder)

OpsOf(kind) == {i \in 1..Len(ops) : ops[i].op = kind}
ActionOps == {"mkdir", "unrar", "move", "recycle"}
IsActionLine(l) == l.op \in ActionOps
ActionLines(lg) == SelectSeq(lg, IsActionLine)
\* the lines logged since the current item started
ItemLines == SubSeq(log, item0.loglen + 1, Len(log))

\* ------------------------------------------------------------------ claims

\* C1: a result with status error never carries a recycled_to path, and no
\* recycle move of the source folder was executed while it was produced.
C1_ErrorNeverRecycles ==
    /\ \A i \in 1..Len(results) :
         results[i].status = "error" => results[i].recycled_to = NoPath
    /\ (Returned /\ details.status = "error") =>
         /\ OpsOf("recycle") = {}
         /\ folder \in dirs

C1_Witness ==
    /\ Returned /\ run /\ details.status = "error" /\ details.reason = "unrar_failed"
    /\ Len(ops) > 0

\* C2: in perform mode, after an item that ended in one of the three error
\* kinds (name not parsed, no media found, extraction tool exit status not
\* zero), the source folder and every file in it are where they were.
C2_ErrorLeavesSource ==
    (/\ Returned /\ run
     /\ \/ ~FolderParsed(folder).ok
        \/ NoMedia0
        \/ code \notin {-1, 0})
    => SourceUntouched

C2_Witness ==
    /\ Returned /\ run /\ code = 1 /\ details.status = "error"
    /\ DOMAIN TreeFiles(files, folder) # {}

\* the files the move loop of the current item has already moved
MovedSoFar ==
    LET what == StrategyOf(rar, vids, extless)
    IN IF what = "video" THEN {vids[i] : i \in 1..(idx - 1)}
       ELSE IF what = "extless" THEN {extless[i] : i \in 1..(idx - 1)}
       ELSE {}

\* C3: in perform mode, at any point of an item before its
\* recycle move, also when the process is killed there, the source folder
\* and every file it held are still at their original paths.
C3_SourceUntouchedBeforeRecycle ==
    (run /\ InItem /\ OpsOf("recycle") = {}) => SourceUntouched

\* What the code keeps of C3: in perform mode, at any point of an item before
\* its recycle move, the source folder and its subdirectories are in place, and
\* a file it held is at its original path, unchanged, exactly when the move
\* loop has not moved it yet; under the archive strategy nothing in it has
\* changed.
C3_UnmovedFilesInPlace ==
    (run /\ InItem /\ OpsOf("recycle") = {}) =>
        /\ TreeDirs(dirs, folder) = TreeDirs(item0.dirs, folder)
        /\ TreeFiles(files, folder) =
             [p \in DOMAIN TreeFiles(item0.files, folder) \ MovedSoFar |-> item0.files[p]]
        /\ (rar # NoPath => SourceUntouched)

C3_Witness ==
    /\ pc = "killed" /\ run /\ Len(vids) = 2 /\ idx = 2
    /\ vids[1] \notin DOMAIN files /\ vids[2] \in DOMAIN files

\* C4: in a dry run the source tree, the recycle tree and the library tree
\* stay as they were when the run started: no directory is created, nothing
\* is moved, and the extraction tool is not invoked.
C4_DryRunChangesNothing ==
    ~run =>
        /\ TreeDirs(dirs, COMPLETE) = TreeDirs(run0.dirs, COMPLETE)
        /\ TreeDirs(dirs, MEDIA) = TreeDirs(run0.dirs, MEDIA)
        /\ files = run0.files
        /\ ops = << >>
        /\ code = -1

C4_Witness ==
    /\ ~run /\ pc = "exit" /\ Len(results) >= 2
    /\ \E i \in 1..Len(results) : results[i].recycled_to # NoPath
    /\ \E i \in 1..Len(log) : log[i].op = "mkdir"
    /\ \E i \in 1..Len(log) : log[i].op = "unrar"

\* C5: for a single item, the action lines (mkdir, unrar, move, recycle) of a
\* dry run equal those of the perform run that follows it from the same
\* filesystem, when the extraction tool exits with status zero.
C5_DryRunIsPreview ==
    (/\ pc = "exit" /\ prev.valid /\ ~prev.run /\ run
     /\ Len(results) = 1 /\ Len(prev.results) = 1
     /\ results[1].reason # "unrar_failed")
    => ActionLines(prev.log) = ActionLines(log)

\* C6: after an ok result in perform mode under the video or the large
\* unlabeled strategy, every file of the discovered list is in the
\* destination directory.
C6_AllMovedFilesArrive ==
    (/\ Returned /\ run /\ details.status = "ok"
     /\ StrategyOf(rar, vids, extless) \in {"video", "extless"})
    => LET list == IF StrategyOf(rar, vids, extless) = "video" THEN vids ELSE extless
       IN \A i \in 1..Len(list) :
            \E p \in DOMAIN files : Parent(p) = dest_dir /\ files[p].id = list[i]

\* C7: the path unique_recycle_dest returns does not exist.
C7_RecycleDestIsFree ==
    pc = "urd_done" => ~PathExists(dirs, files, recycle_dest)

\* C8: the strategy follows the priority archive, video, large unlabeled,
\* none, and one strategy runs per item: with an archive in the folder only
\* the extraction happens and no file is moved; large unlabeled files are moved
\* only when there is neither archive nor video; no_media_found is returned
\* exactly when all three scans are empty.
C8_StrategyPriority ==
    (folder # NoPath /\ pc \notin {"process", "ensure_dest", "urd_call", "urd_done"}
       /\ FolderParsed(folder).ok) =>
        /\ Rar0 # NoPath =>
             /\ pc \notin {"video", "extless"}
             /\ OpsOf("move") = {}
             /\ \A i \in 1..Len(ItemLines) : ItemLines[i].op # "move"
        /\ Rar0 = NoPath =>
             /\ pc \notin {"archive", "unrar"}
             /\ OpsOf("unrar") = {}
             /\ \A i \in 1..Len(ItemLines) : ItemLines[i].op # "unrar"
        /\ \A i \in 1..Len(ItemLines) :
             ItemLines[i].op = "move" =>
                IF Vids0 # << >>
                THEN \E j \in 1..Len(Vids0) : Vids0[j] = ItemLines[i].a
                ELSE \E j \in 1..Len(Extless0) : Extless0[j] = ItemLines[i].a
        /\ (pc \in {"next", "exit"}) =>
             ((details.reason = "no_media_found") <=> NoMedia0)

C8_Witness ==
    /\ Returned /\ run /\ details.status = "ok"
    /\ Rar0 # NoPath /\ Vids0 # << >>
    /\ OpsOf("unrar") # {}

\* C9: for a folder whose name does not parse, the result is status error
\* with reason unparseable and nothing else is attempted, in either mode: no
\* mkdir, move, unrar or recycle is logged or executed and the filesystem is
\* as it was.
C9_UnparseableDoesNothing ==
    (Returned /\ ~FolderParsed(folder).ok) =>
        /\ details.status = "error"
        /\ details.reason = "unparseable"
        /\ details = results[Len(results)]
        /\ ops = << >>
        /\ ActionLines(ItemLines) = << >>
        /\ dirs = item0.dirs
        /\ files = item0.files

C9_Witness ==
    /\ Returned /\ run /\ ~FolderParsed(folder).ok
    /\ DOMAIN TreeFiles(files, folder) # {}
    /\ Len(results) = 2

\* C10: in perform mode, after the no-media-found error of a folder with a
\* parseable name, the library tree is as it was before the item.
C10_NoMediaLeavesLibrary ==
    (Returned /\ run /\ FolderParsed(folder).ok /\ NoMedia0) =>
        /\ TreeDirs(dirs, MEDIA) = TreeDirs(item0.dirs, MEDIA)
        /\ TreeFiles(files, MEDIA) = TreeFiles(item0.files, MEDIA)

\* C11: two dry runs in a row over the same folders, both getting past the
\* sanity checks of main, write the same log lines (timestamps aside) and
\* return the same result records and exit code: what the first run did
\* changes nothing in what the second run puts out.
C11_DryRunIdempotent ==
    (/\ pc = "exit" /\ prev.valid /\ ~prev.run /\ ~run
     /\ prev.exit_code # 2)
    => /\ log = prev.log
       /\ results = prev.results
       /\ exit_code = prev.exit_code

C11_Witness ==
    /\ pc = "exit" /\ prev.valid /\ ~prev.run /\ ~run
    /\ Len(prev.results) >= 1
    /\ \E i \in 1..Len(prev.log) : prev.log[i].op = "mkdir"
    /\ \E i \in 1..Len(prev.results) : prev.results[i].recycled_to # NoPath

\* the directories main's two loops visit, from the filesystem at the start
\* of the run: the series root's listing, then the movies root's
ItemsAtStart ==
    LET IsDir(p) == p \in run0.dirs
    IN SelectSeq(iter_items(run0.dirs, run0.files, SRC_SERIES)
                   \o iter_items(run0.dirs, run0.files, SRC_MOVIES), IsDir)

\* C12: an error result of one item does not end the run. The results so far
\* are, in order, one per directory item of the two roots; when main returns
\* after its loops there is exactly one result for every item, also for those
\* after an item that ended in error, ok + error is the number of items, and
\* the exit code is 0 exactly when no result is an error.
C12_ErrorsAreNotFatal ==
    LET items == ItemsAtStart
    IN /\ Len(results) <= Len(items)
       /\ \A i \in 1..Len(results) : results[i].path = items[i]
       /\ (pc = "exit" /\ exit_code # 2) =>
            /\ Len(results) = Len(items)
            /\ CountStatus(results, TRUE) + CountStatus(results, FALSE) = Len(items)
            /\ exit_code \in {0, 1}
            /\ (exit_code = 0) <=> (CountStatus(results, FALSE) = 0)
            /\ log[Len(log)] = Line("done", <<ToString(CountStatus(results, TRUE)),
                                              ToString(CountStatus(results, FALSE))>>,
                                     NoPath)

C12_Witness ==
    /\ pc = "exit" /\ exit_code = 1
    /\ Len(results) = 2
    /\ results[1].status = "error" /\ results[2].status = "ok"

\* one of the five roots main needs did not exist when this run started
RootMissingAtStart ==
    \E r \in {SRC_SERIES, SRC_MOVIES, DST_TV, DST_MOVIES, CODA_HOME} :
        ~PathExists(run0.dirs, run0.files, r)

\* C13: when a required root (series source, movie source, TV destination,
\* movie destination, log home) is missing at the start of a run, the run ends
\* with exit code 2 before any item: no folder is entered, no result is
\* produced, no mkdir, move, unrar or recycle is logged or executed, and the
\* source roots and the library are as they were.
C13_MissingRootAborts ==
    RootMissingAtStart =>
        /\ pc \in {"main", "exit"}
        /\ results = << >>
        /\ folder = NoPath
        /\ ops = << >>
        /\ ActionLines(log) = << >>
        /\ files = run0.files
        /\ TreeDirs(dirs, COMPLETE) = TreeDirs(run0.dirs, COMPLETE)
        /\ TreeDirs(dirs, MEDIA) = TreeDirs(run0.dirs, MEDIA)
        /\ pc = "exit" =>
             /\ exit_code = 2
             /\ Len(log) = 1 /\ log[1].op = "missing"
             /\ ~PathExists(run0.dirs, run0.files, log[1].a)

C13_Witness ==
    /\ pc = "exit" /\ exit_code = 2 /\ run
    /\ ~PathExists(run0.dirs, run0.files, DST_TV)
    /\ (SRC_MOVIES \o <<MOVIE_A, "e1.mkv">>) \in DOMAIN files

\* the year token ahead of the marker, if the name has one
YearOf(r) ==
    IF r.year = << >> THEN NoYear
    ELSE (CHOOSE y \in YearTokens : y.tok = r.year[1]).val
MarkerOf(r) == CHOOSE m \in MarkerTokens : m.tok = r.marker[1]
NoMarkerIn(ts) == \A i \in 1..Len(ts) : ~IsMarkerTok(ts[i])

\* The parts are the name's own reading: no title token is itself a marker,
\* and a name without year part does not end its title of several tokens in
\* a year (that token would be the name's year).
ReadAsBuilt(r) ==
    /\ NoMarkerIn(r.show)
    /\ (r.year = << >> /\ Len(r.show) >= 2) => ~IsYearTok(r.show[Len(r.show)])

\* C14: for a name built of title tokens, an optional year token 1900..2099,
\* a marker SnnEnn and any tokens after it, parse_tv returns the title tokens
\* joined by single spaces, the year (none when the name has none) and the two
\* numbers of the marker; a year token standing ahead of the marker is the
\* year and never the end of the title; a second call returns what the first
\* returned.
C14_ParseTvRecovers ==
    pc \in {"parse_again", "parse_done"} =>
        /\ \A i \in 1..Len(parse_out) : parse_out[i] = parse_out[1]
        /\ ReadAsBuilt(name_parts) =>
             parse_out[1] = [ok |-> TRUE,
                             show |-> JoinWords(name_parts.show),
                             year |-> YearOf(name_parts),
                             season |-> MarkerOf(name_parts).season,
                             episode |-> MarkerOf(name_parts).episode]
        /\ (/\ NoMarkerIn(name_parts.show) /\ name_parts.year = << >>
            /\ Len(name_parts.show) >= 2
            /\ IsYearTok(name_parts.show[Len(name_parts.show)])) =>
             /\ parse_out[1].ok
             /\ parse_out[1].show =
                  JoinWords(SubSeq(name_parts.show, 1, Len(name_parts.show) - 1))
             /\ parse_out[1].year # NoYear

C14_Witness ==
    /\ pc = "parse_done" /\ Len(parse_out) = 2
    /\ ReadAsBuilt(name_parts)
    /\ Len(name_parts.show) = 2 /\ IsYearTok(name_parts.show[1])
    /\ name_parts.year # << >> /\ name_parts.rest # << >>
    /\ parse_out[2].year = 2099 /\ parse_out[2].season = 10

\* the list the move loop of the current item works through
SelectedList == IF vids # << >> THEN vids ELSE extless

\* C15: the recycle move comes last and only after success. In perform mode,
\* when the recycle move of a folder has been executed, it is the last thing
\* executed for that folder and the folder's processing has returned; before
\* it the extraction tool has run and returned exit status zero (archive) or
\* every file of the selected list has been moved (video, large unlabeled).
\* After an ok result in perform mode nothing is left at the source path, and
\* the folder, with the files that were not moved out of it, is at the
\* recycled_to path of the result, which did not exist before.
C15_RecycleLastAndGated ==
    /\ (run /\ OpsOf("recycle") # {}) =>
         /\ OpsOf("recycle") = {Len(ops)}
         /\ ops[Len(ops)].a = folder
         /\ pc \in {"next", "exit"}
         /\ moved_any
         /\ IF rar # NoPath
            THEN /\ code = 0
                 /\ \E j \in 1..(Len(ops) - 1) : ops[j] = Line("unrar", rar, dest_dir)
                 /\ OpsOf("move") = {}
            ELSE /\ SelectedList # << >>
                 /\ \A i \in 1..Len(SelectedList) :
                      \E j \in 1..(Len(ops) - 1) :
                          ops[j].op = "move" /\ ops[j].a = SelectedList[i]
    /\ (run /\ InItem /\ pc # "killed" /\ pc # "recycle") => OpsOf("recycle") = {}
    /\ (Returned /\ run /\ details.status = "ok") =>
         /\ OpsOf("recycle") # {}
         /\ ~PathExists(dirs, files, folder)
         /\ DOMAIN TreeFiles(files, folder) = {}
         /\ details.recycled_to # NoPath
         /\ details.recycled_to = ops[Len(ops)].b
         /\ ~PathExists(item0.dirs, item0.files, details.recycled_to)
         /\ details.recycled_to \in dirs
         /\ DOMAIN TreeFiles(files, details.recycled_to) =
              {Rebase(p, folder, details.recycled_to) :
                 p \in DOMAIN TreeFiles(item0.files, folder) \ MovedSoFar}
         /\ \A p \in DOMAIN TreeFiles(item0.files, folder) \ MovedSoFar :
              files[Rebase(p, folder, details.recycled_to)] = item0.files[p]

C15_Witness ==
    /\ Returned /\ run /\ details.status = "ok"
    /\ Len(vids) = 1 /\ Cardinality(OpsOf("move")) = 1
    /\ OpsOf("recycle") # {}
    /\ DOMAIN TreeFiles(files, details.recycled_to) # {}

\* C16: a success with nothing moved does not occur. In both modes moved_any
\* is true whenever an item is at its retirement step, so every item that gets
\* there goes through the recycle block; a result has status ok exactly when
\* it carries a recycled_to path.
C16_OkMeansRecycled ==
    /\ pc \in {"retire", "recycle"} => moved_any
    /\ \A i \in 1..Len(results) :
         (results[i].status = "ok") <=> (results[i].recycled_to # NoPath)
    /\ \A i \in 1..Len(results) : results[i].status \in {"ok", "error"}
    /\ (Returned /\ details.status = "ok") =>
         \E i \in 1..Len(ItemLines) :
            ItemLines[i] = Line("recycle", folder, details.recycled_to)

C16_Witness ==
    /\ pc = "exit" /\ ~run /\ Len(results) = 2
    /\ results[1].status = "ok" /\ results[1].recycled_to # NoPath
    /\ results[2].status = "error" /\ results[2].reason = "no_media_found"

IsMkdir(l) == l.op = "mkdir"

\* C17: in perform mode the directory an operation works into exists when
\* the operation is executed: the destination directory from ensure_dir(dest_dir)
\* on, through every move and the run of the extraction tool, and the date
\* folder of the recycle path when the recycle move is due and after it.
\* ensure_dir makes a missing directory with its parents and logs one mkdir
\* line; for a directory that exists it changes nothing and logs nothing, so
\* in perform mode every mkdir line stands for a directory made.
C17_TargetDirExists ==
    run =>
        /\ pc \in {"scan", "archive", "unrar", "video", "extless", "retire", "recycle"} =>
             dest_dir \in dirs
        /\ pc = "scan" =>
             IF PathExists(item0.dirs, item0.files, dest_dir)
             THEN dirs = item0.dirs /\ files = item0.files /\ ItemLines = << >>
                  /\ ops = << >>
             ELSE /\ dirs = item0.dirs \cup Prefixes(dest_dir)
                  /\ files = item0.files
                  /\ ItemLines = <<Line("mkdir", dest_dir, NoPath)>>
                  /\ ops = ItemLines
        /\ pc = "recycle" =>
             /\ Parent(recycle_dest) \in dirs
             /\ Prefixes(Parent(recycle_dest)) \subseteq dirs
        /\ \A j \in 1..Len(ops) :
             /\ ops[j].op = "move" => Parent(ops[j].b) = dest_dir /\ dest_dir \in dirs
             /\ ops[j].op = "unrar" => ops[j].b = dest_dir /\ dest_dir \in dirs
             /\ ops[j].op = "recycle" => Parent(ops[j].b) \in dirs
             /\ ops[j].op = "mkdir" => Prefixes(ops[j].a) \subseteq dirs
        /\ SelectSeq(ItemLines, IsMkdir) = SelectSeq(ops, IsMkdir)
        /\ \A i, j \in 1..Len(ops) :
             (ops[i].op = "mkdir" /\ ops[j].op = "mkdir" /\ ops[i].a = ops[j].a) => i = j

C17_Witness ==
    /\ Returned /\ run /\ details.status = "ok"
    /\ ~PathExists(item0.dirs, item0.files, dest_dir)
    /\ ~PathExists(item0.dirs, item0.files, Parent(details.recycled_to))
    /\ Len(ops) = 4
    /\ ops[1].op = "mkdir" /\ ops[2].op = "move" /\ ops[3].op = "mkdir"
    /\ ops[4].op = "recycle"

\* the archives the folder held when the item started, by their place in the
\* traversal order
ArchivePlaces0 ==
    {i \in 1..Len(FileOrder) : /\ (folder \o FileOrder[i]) \in DOMAIN item0.files
                                /\ Suffix(Name(FileOrder[i])) = ".rar"}
FirstArchive0 ==
    folder \o FileOrder[CHOOSE i \in ArchivePlaces0 : \A j \in ArchivePlaces0 : i <= j]
IsUnrar(l) == l.op = "unrar"

\* C18: for a folder with a parseable name that holds an archive, the
\* extraction is logged at most once per item and exactly once when the item
\* has returned, in perform mode the tool is run at most once and exactly once
\* when the item has returned, always on the first archive of the traversal
\* and into the destination directory, whatever other archives, video files
\* or large unlabeled files the folder holds; no file of the folder is moved
\* or put into the destination directory; in perform mode on exit status zero
\* every file the folder held is in the recycled folder and none is left in
\* the source area.
C18_OnlyFirstArchive ==
    (/\ folder # NoPath /\ pc \notin {"urd_call", "urd_done"}
     /\ FolderParsed(folder).ok /\ ArchivePlaces0 # {}) =>
      LET lines == ItemLines
          call == Line("unrar", FirstArchive0, dest_dir)
      IN
        /\ Len(SelectSeq(lines, IsUnrar)) <= 1
        /\ \A i \in 1..Len(lines) : IsUnrar(lines[i]) => lines[i] = call
        /\ Cardinality(OpsOf("unrar")) <= 1
        /\ \A j \in OpsOf("unrar") : ops[j] = call
        /\ OpsOf("move") = {}
        /\ \A i \in 1..Len(lines) : lines[i].op # "move"
        /\ \A p \in DOMAIN files :
             IsUnder(p, MEDIA) => ~IsUnder(files[p].id, folder)
        /\ Returned =>
             /\ Len(SelectSeq(lines, IsUnrar)) = 1
             /\ run => Cardinality(OpsOf("unrar")) = 1
             /\ ~run => OpsOf("unrar") = {}
        /\ (Returned /\ run /\ code = 0) =>
             /\ details.status = "ok"
             /\ \A p \in DOMAIN item0.files :
                  IsUnder(p, folder) =>
                    LET q == Rebase(p, folder, details.recycled_to)
                    IN q \in DOMAIN files /\ files[q] = item0.files[p]
             /\ \A p \in DOMAIN files :
                  (IsUnder(p, SRC_SERIES) \/ IsUnder(p, SRC_MOVIES)) => ~IsUnder(p, folder)

C18_Witness ==
    /\ Returned /\ run /\ code = 0 /\ details.status = "ok"
    /\ ArchivePlaces0 # {} /\ Cardinality(ArchivePlaces0) = 2
    /\ FirstArchive0 = folder \o <<"a.rar">>
    /\ (details.recycled_to \o <<"Sub", "b.rar">>) \in DOMAIN files

SourceDirs(d) == TreeDirs(d, SRC_SERIES) \cup TreeDirs(d, SRC_MOVIES)
ResultPaths(rs) == {rs[i].path : i \in 1..Len(rs)}
ItemSet == {ItemsAtStart[i] : i \in 1..Len(ItemsAtStart)}

\* C19: over perform runs in a row with no new downloads, no run adds a
\* directory to the source roots; a folder the run before ended with ok is not
\* in its source root, is not listed and gets no result in this run; a folder
\* the run before ended with error is in its source root as this run starts,
\* is listed, and has its result when this run has gone through its loops.
C19_OkGoneErrorRetried ==
    /\ SourceDirs(dirs) \subseteq SourceDirs(run0.dirs)
    /\ (prev.valid /\ prev.run /\ run /\ prev.results # << >>) =>
         LET items == ItemSet
             done == ResultPaths(results)
         IN \A i \in 1..Len(prev.results) :
               LET r == prev.results[i]
               IN IF r.status = "ok"
                  THEN /\ ~PathExists(dirs, files, r.path)
                       /\ ~PathExists(run0.dirs, run0.files, r.path)
                       /\ r.path \notin items
                       /\ r.path \notin done
                       /\ folder # r.path
                  ELSE /\ r.path \in run0.dirs
                       /\ r.path \in items
                       /\ pc = "exit" => r.path \in done

C19_Witness ==
    /\ pc = "exit" /\ prev.valid /\ prev.run /\ run
    /\ Len(prev.results) = 2
    /\ prev.results[1].status = "ok" /\ prev.results[2].status = "error"
    /\ Len(results) = 1 /\ results[1].path = prev.results[2].path

====
